---- MODULE Spec2Model ----
(***************************************************************************)
(* A model of useful.py: a flat library of functional helpers (Python 2).  *)
(* Every function is an operator computed the way the code computes it;    *)
(* one action per function applies it to inputs drawn from bounded sets    *)
(* and records the call and its outcome.  Lists the code copies or mutates *)
(* live on a small heap so that aliasing is observable.  repeat() is a     *)
(* generator and is modelled step by step.                                 *)
(***************************************************************************)
EXTENDS Integers, Sequences, FiniteSets, TLC

VARIABLES call, out, heap, gen, resumes

vars == <<call, out, heap, gen, resumes>>

(***************************************************************************)
(* Bounds of the model.                                                    *)
(***************************************************************************)
MaxLen == 3
MaxInt == 1
MaxTags == 2
MaxRows == 2
MaxCols == 2
MaxN == 3
ResumeWrap == 2

(***************************************************************************)
(* Python values.  A value is a pair <<type, payload>> so that values of   *)
(* different types can be compared; a list the code builds and returns is  *)
(* a value, a list it copies or mutates is an object of the heap.          *)
(***************************************************************************)
None == <<"NoneType", 0>>
PyInt(i) == <<"int", i>>
PyBool(b) == <<"bool", IF b THEN 1 ELSE 0>>
PyList(l) == <<"list", l>>
PyTuple(l) == <<"tuple", l>>
PyDict(d) == <<"dict", d>>
\* A reference to a list object of the heap.
PyRef(r) == <<"ref", r>>
PyTrue == PyBool(TRUE)
PyFalse == PyBool(FALSE)

IsNumber(v) == v[1] \in {"int", "bool"}

\* The host's == on these values: bool is a subtype of int (True == 1).
PyEq(a, b) == IF IsNumber(a) /\ IsNumber(b) THEN a[2] = b[2] ELSE a = b

Values == {None, PyTrue, PyInt(0), PyInt(1)}

SeqsUpTo(S, n) == UNION {[1..k -> S] : k \in 0..n}

(***************************************************************************)
(* Outcomes of a call: a returned value or a raised exception.             *)
(***************************************************************************)
Return(v) == [kind |-> "return", val |-> v]
Raise(k) == [kind |-> "raise", exn |-> k]

(***************************************************************************)
(* The exception classes of the host and their base classes.               *)
(***************************************************************************)
Kinds ==
  {"BaseException", "SystemExit", "KeyboardInterrupt", "Exception",
   "StopIteration", "StandardError", "ArithmeticError", "ZeroDivisionError",
   "LookupError", "IndexError", "KeyError"}

Base(k) ==
  CASE k = "SystemExit" -> "BaseException"
    [] k = "KeyboardInterrupt" -> "BaseException"
    [] k = "Exception" -> "BaseException"
    [] k = "StopIteration" -> "Exception"
    [] k = "StandardError" -> "Exception"
    [] k = "ArithmeticError" -> "StandardError"
    [] k = "ZeroDivisionError" -> "ArithmeticError"
    [] k = "LookupError" -> "StandardError"
    [] k = "IndexError" -> "LookupError"
    [] k = "KeyError" -> "LookupError"
    [] OTHER -> "object"

RECURSIVE isinstance(_, _)
isinstance(k, e) ==
  IF k = e THEN TRUE
  ELSE IF k \notin Kinds THEN FALSE
  ELSE isinstance(Base(k), e)

(***************************************************************************)
(* maybe(f, default, exceptions).  f is called exactly once; the model     *)
(* passes the outcome of that one call.                                    *)
(***************************************************************************)
\* maybe with the match made on the exact class only.
maybe_exact(f, default, exceptions) ==
  IF f.kind = "return" THEN f
  ELSE IF isinstance(f.exn, "SystemExit") THEN f
  ELSE IF isinstance(f.exn, "Exception")
    THEN IF \E e \in exceptions : f.exn = e THEN Return(default) ELSE f
  ELSE f

\* maybe with a handler for every exception and no SystemExit clause.
maybe_catch_all(f, default, exceptions) ==
  IF f.kind = "return" THEN f
  ELSE IF \E e \in exceptions : isinstance(f.exn, e) THEN Return(default)
  ELSE f

maybe(f, default, exceptions) ==
  IF f.kind = "return" THEN f
  ELSE IF isinstance(f.exn, "SystemExit") THEN f
  ELSE IF isinstance(f.exn, "Exception")
    THEN IF \E e \in exceptions : isinstance(f.exn, e)
           THEN Return(default)
           ELSE f
  ELSE f

\* maybe_get with only a missing key downgraded.
maybe_get_keyerror(f_dict, default) == maybe(f_dict, default, {"KeyError"})

maybe_get(f_dict, default) == maybe(f_dict, default, {"LookupError"})


(***************************************************************************)
(* Lists live on a heap: a sequence of lists, a reference being an index.  *)
(***************************************************************************)
EmptyHeap == <<>>

\* A "copy" that hands back the caller's own list.
list_alias(h, r) == [heap |-> h, ref |-> r]

\* list(xs): a new list with the elements of xs.
list_copy(h, r) == [heap |-> Append(h, h[r]), ref |-> Len(h) + 1]

\* list.reverse(), in place.
list_reverse(l) == [i \in 1..Len(l) |-> l[Len(l) + 1 - i]]

safe_reverse(h, xs) ==
  LET c == list_copy(h, xs)
  IN [heap |-> [c.heap EXCEPT ![c.ref] = list_reverse(@)], out |-> Return(PyRef(c.ref))]

\* x[i], x[j] = x[j], x[i] with 0-based i, j.
list_swap(l, i, j) == [l EXCEPT ![i + 1] = l[j + 1], ![j + 1] = l[i + 1]]

\* random.shuffle: for i in reversed(xrange(1, len(x))): j = int(random() * (i+1)).
\* rnd[i] is the j the random source gives at step i.
RECURSIVE shuffle_from(_, _, _)
shuffle_from(l, i, rnd) ==
  IF i < 1 THEN l ELSE shuffle_from(list_swap(l, i, rnd[i]), i - 1, rnd)

random_shuffle(l, rnd) == shuffle_from(l, Len(l) - 1, rnd)

\* The outcomes of the random source for a list of length n.
RandomOutcomes(n) == {rnd \in [1..(n - 1) -> 0..(n - 1)] : \A i \in 1..(n - 1) : rnd[i] <= i}

safe_shuffle(h, xs, rnd) ==
  LET c == list_copy(h, xs)
  IN [heap |-> [c.heap EXCEPT ![c.ref] = random_shuffle(@, rnd)], out |-> Return(PyRef(c.ref))]

\* l[index] = v with every negative index counted from the end, however far.
list_setitem_wrap(l, index, v) ==
  IF Len(l) = 0 THEN [out |-> Raise("IndexError"), list |-> l]
  ELSE [out |-> Return(None), list |-> [l EXCEPT ![(index % Len(l)) + 1] = v]]

\* l[index] = v: a negative index is counted from the end once.
list_setitem(l, index, v) ==
  LET i == IF index < 0 THEN index + Len(l) ELSE index
  IN IF i < 0 \/ i >= Len(l)
       THEN [out |-> Raise("IndexError"), list |-> l]
       ELSE [out |-> Return(None), list |-> [l EXCEPT ![i + 1] = v]]

update_list(h, xs, index, new_x) ==
  LET c == list_copy(h, xs)
      s == list_setitem(c.heap[c.ref], index, new_x)
  IN IF s.out.kind = "raise"
       THEN [heap |-> c.heap, out |-> s.out]
       ELSE [heap |-> [c.heap EXCEPT ![c.ref] = s.list], out |-> Return(PyRef(c.ref))]

(***************************************************************************)
(* Iterators: a sequence and the number of items consumed.                 *)
(***************************************************************************)
iter(items) == [items |-> items, pos |-> 0]

iter_next(it) ==
  IF it.pos < Len(it.items)
    THEN [out |-> Return(it.items[it.pos + 1]), it |-> [it EXCEPT !.pos = @ + 1]]
    ELSE [out |-> Raise("StopIteration"), it |-> it]

\* all(x == i0 for x in it): stops at the first item that differs.
RECURSIVE all_equal_to(_, _)
all_equal_to(it, i0) ==
  LET r == iter_next(it)
  IN IF r.out.kind = "raise" THEN TRUE
     ELSE IF ~PyEq(r.out.val, i0) THEN FALSE
     ELSE all_equal_to(r.it, i0)

\* all_same with no exception downgraded when the first item is taken.
all_same_strict(items) ==
  LET r == iter_next(iter(items))
      i0 == maybe(r.out, None, {})
  IN IF i0.kind = "raise" THEN i0
     ELSE Return(PyBool(all_equal_to(r.it, i0.val)))

all_same(items) ==
  LET r == iter_next(iter(items))
      i0 == maybe(r.out, None, {"StopIteration"})
  IN IF i0.kind = "raise" THEN i0
     ELSE Return(PyBool(all_equal_to(r.it, i0.val)))

all_nones(xs) == Return(PyBool(all_equal_to(iter(xs), None)))

(***************************************************************************)
(* replicate, transpose, concat, zipWith.                                  *)
(***************************************************************************)
\* [x] * n: a count below zero is taken as zero.
RECURSIVE list_repeat(_, _)
list_repeat(l, n) == IF n <= 0 THEN <<>> ELSE l \o list_repeat(l, n - 1)

\* replicate with the size of the count, whatever its sign.
replicate_abs(n, x) == Return(PyList(list_repeat(<<x>>, IF n[2] < 0 THEN -n[2] ELSE n[2])))

replicate(n, x) == Return(PyList(list_repeat(<<x>>, n[2])))

\* zip(*rows): one tuple per round, until the first row that is exhausted.
RECURSIVE zip_from(_, _)
zip_from(rows, j) ==
  IF \E i \in 1..Len(rows) : j > Len(rows[i]) THEN <<>>
  ELSE <<PyTuple([i \in 1..Len(rows) |-> rows[i][j]])>> \o zip_from(rows, j + 1)

zip(rows) == IF Len(rows) = 0 THEN <<>> ELSE zip_from(rows, 1)

\* zip that goes on to the end of the longest row, filling with None.
RECURSIVE zip_longest_from(_, _)
zip_longest_from(rows, j) ==
  IF \A i \in 1..Len(rows) : j > Len(rows[i]) THEN <<>>
  ELSE <<PyTuple([i \in 1..Len(rows) |-> IF j > Len(rows[i]) THEN None ELSE rows[i][j]])>>
         \o zip_longest_from(rows, j + 1)

transpose_longest(m) == Return(PyList(zip_longest_from(m, 1)))

transpose(m) == Return(PyList(zip(m)))

\* reduce(function, sequence, initial), from the left.
RECURSIVE reduce_concat(_, _, _)
reduce_concat(xss, i, acc) ==
  IF i > Len(xss) THEN acc ELSE reduce_concat(xss, i + 1, acc \o xss[i])

concat(xss) == Return(PyList(reduce_concat(xss, 1, <<>>)))

\* map(f, xs, ys) is evaluated and dropped; the function returns None.
zipWith(f, xs, ys) == Return(None)

(***************************************************************************)
(* union_with.  A dict is a function on its set of keys; mappend is one of *)
(* the named binary functions.                                             *)
(***************************************************************************)
Keys == {"a", "b"}
Dicts(V) == UNION {[K -> V] : K \in SUBSET Keys}

dict_get(d, k, default) == IF k \in DOMAIN d THEN d[k] ELSE default

Apply(mappend, x, y) ==
  CASE mappend = "add" -> PyInt(x[2] + y[2])
    [] mappend = "sub" -> PyInt(x[2] - y[2])
    [] mappend = "concat" -> PyList(x[2] \o y[2])

\* union_with with the two dictionaries in the other order.
union_with_swapped(mempty, mappend, d1, d2) ==
  Return(PyDict([key \in (DOMAIN d1) \cup (DOMAIN d2) |->
            Apply(mappend, dict_get(d2, key, mempty), dict_get(d1, key, mempty))]))

union_with(mempty, mappend, d1, d2) ==
  Return(PyDict([key \in (DOMAIN d1) \cup (DOMAIN d2) |->
            Apply(mappend, dict_get(d1, key, mempty), dict_get(d2, key, mempty))]))

(***************************************************************************)
(* repeat(n): a generator.  One resumption runs the body to its next yield *)
(* or to its end.                                                          *)
(***************************************************************************)
NoGen == [pc |-> "none", n |-> None]
Generator == <<"generator", 0>>

\* A body that yields once: "if" where the code has "while".
repeat_resume_once(g) ==
  IF g.pc = "start"
    THEN [gen |-> [g EXCEPT !.pc = "suspended"], out |-> Return(g.n)]
    ELSE [gen |-> [g EXCEPT !.pc = "end"], out |-> Raise("StopIteration")]

\* while True: yield n
repeat_resume(g) ==
  IF TRUE
    THEN [gen |-> [g EXCEPT !.pc = "suspended"], out |-> Return(g.n)]
    ELSE [gen |-> [g EXCEPT !.pc = "end"], out |-> Raise("StopIteration")]

(***************************************************************************)
(* The state: the last call and its outcome.                               *)
(***************************************************************************)
\* Before a call and between calls there is no outcome.
NoOutcome == [kind |-> "none"]

Init ==
  /\ call = [op |-> "none"]
  /\ out = NoOutcome
  /\ heap = EmptyHeap
  /\ gen = NoGen
  /\ resumes = 0

\* The caller makes one call at a time and then drops its result.
Idle == call.op = "none"

Reset ==
  /\ ~Idle
  /\ call.op = "repeat" => gen.pc = "end"
  /\ call' = [op |-> "none"]
  /\ out' = NoOutcome
  /\ heap' = EmptyHeap
  /\ gen' = NoGen
  /\ resumes' = 0

\* What the deferred computation passed to maybe can do.
FOutcomes == {Return(v) : v \in Values} \cup {Raise(k) : k \in Kinds}
Defaults == {None, PyInt(0)}
TagSets == {E \in SUBSET Kinds : Cardinality(E) <= MaxTags}

CallMaybe ==
  /\ Idle
  /\ \E f \in FOutcomes, d \in Defaults, E \in TagSets :
       /\ call' = [op |-> "maybe", f |-> f, default |-> d, exceptions |-> E]
       /\ out' = maybe(f, d, E)
       /\ heap' = EmptyHeap
       /\ UNCHANGED <<gen, resumes>>

CallMaybeGet ==
  /\ Idle
  /\ \E f \in FOutcomes, d \in Defaults :
       /\ call' = [op |-> "maybe_get", f |-> f, default |-> d]
       /\ out' = maybe_get(f, d)
       /\ heap' = EmptyHeap
       /\ UNCHANGED <<gen, resumes>>

\* The lists the caller passes.
Lists == SeqsUpTo(Values, MaxLen)
Indexes == (0 - MaxLen - 2)..(MaxLen + 1)
Counts == {PyInt(i) : i \in (0 - MaxN)..MaxN}
Rows == SeqsUpTo({PyInt(0), PyInt(1)}, MaxCols)
Matrices == SeqsUpTo(Rows, MaxRows)
Numbers == {PyInt(i) : i \in 0..MaxInt}
Words == {PyList(l) : l \in SeqsUpTo({PyInt(0), PyInt(1)}, 1)}

CallSafeShuffle ==
  /\ Idle
  /\ \E xs \in Lists :
       \E rnd \in RandomOutcomes(Len(xs)) :
         LET r == safe_shuffle(<<xs>>, 1, rnd)
         IN /\ call' = [op |-> "safe_shuffle", xs |-> xs, ref |-> 1,
                        rnd |-> rnd]
            /\ out' = r.out
            /\ heap' = r.heap
            /\ UNCHANGED <<gen, resumes>>

CallSafeReverse ==
  /\ Idle
  /\ \E xs \in Lists :
       LET r == safe_reverse(<<xs>>, 1)
       IN /\ call' = [op |-> "safe_reverse", xs |-> xs, ref |-> 1]
          /\ out' = r.out
          /\ heap' = r.heap
          /\ UNCHANGED <<gen, resumes>>

CallUpdateList ==
  /\ Idle
  /\ \E xs \in Lists, index \in Indexes, new_x \in {None, PyInt(1)} :
       LET r == update_list(<<xs>>, 1, index, new_x)
       IN /\ call' = [op |-> "update_list", xs |-> xs, ref |-> 1,
                      index |-> index, new_x |-> new_x]
          /\ out' = r.out
          /\ heap' = r.heap
          /\ UNCHANGED <<gen, resumes>>

CallAllSame ==
  /\ Idle
  /\ \E items \in Lists :
       /\ call' = [op |-> "all_same", items |-> items]
       /\ out' = all_same(items)
       /\ heap' = EmptyHeap
       /\ UNCHANGED <<gen, resumes>>

CallAllNones ==
  /\ Idle
  /\ \E xs \in Lists :
       /\ call' = [op |-> "all_nones", xs |-> xs]
       /\ out' = all_nones(xs)
       /\ heap' = EmptyHeap
       /\ UNCHANGED <<gen, resumes>>

CallReplicate ==
  /\ Idle
  /\ \E n \in Counts, x \in Values :
       /\ call' = [op |-> "replicate", n |-> n, x |-> x]
       /\ out' = replicate(n, x)
       /\ heap' = EmptyHeap
       /\ UNCHANGED <<gen, resumes>>

CallTranspose ==
  /\ Idle
  /\ \E m \in Matrices :
       /\ call' = [op |-> "transpose", m |-> m]
       /\ out' = transpose(m)
       /\ heap' = EmptyHeap
       /\ UNCHANGED <<gen, resumes>>

CallConcat ==
  /\ Idle
  /\ \E xss \in Matrices :
       /\ call' = [op |-> "concat", xss |-> xss]
       /\ out' = concat(xss)
       /\ heap' = EmptyHeap
       /\ UNCHANGED <<gen, resumes>>

CallZipWith ==
  /\ Idle
  /\ \E xs \in Rows, ys \in Rows :
       /\ call' = [op |-> "zipWith", fn |-> "add", xs |-> xs, ys |-> ys]
       /\ out' = zipWith("add", xs, ys)
       /\ heap' = EmptyHeap
       /\ UNCHANGED <<gen, resumes>>

CallUnionWithNumbers ==
  /\ Idle
  /\ \E mempty \in Numbers, mappend \in {"add", "sub"},
        d1 \in Dicts(Numbers), d2 \in Dicts(Numbers) :
       /\ call' = [op |-> "union_with", mempty |-> mempty, mappend |-> mappend,
                   d1 |-> d1, d2 |-> d2]
       /\ out' = union_with(mempty, mappend, d1, d2)
       /\ heap' = EmptyHeap
       /\ UNCHANGED <<gen, resumes>>

CallUnionWithLists ==
  /\ Idle
  /\ \E mempty \in Words, d1 \in Dicts(Words), d2 \in Dicts(Words) :
       /\ call' = [op |-> "union_with", mempty |-> mempty, mappend |-> "concat",
                   d1 |-> d1, d2 |-> d2]
       /\ out' = union_with(mempty, "concat", d1, d2)
       /\ heap' = EmptyHeap
       /\ UNCHANGED <<gen, resumes>>

\* x = repeat(n): the generator is created, its body not yet entered.
CallRepeat ==
  /\ Idle
  /\ \E n \in {PyInt(0), PyInt(1)} :
       /\ call' = [op |-> "repeat", n |-> n]
       /\ out' = Return(Generator)
       /\ gen' = [pc |-> "start", n |-> n]
       /\ heap' = EmptyHeap
       /\ resumes' = 0

\* x.next(), as a consumer that drains the generator does again and again.
RepeatNext ==
  /\ call.op = "repeat"
  /\ gen.pc \in {"start", "suspended"}
  /\ LET r == repeat_resume(gen)
     IN /\ gen' = r.gen
        /\ out' = r.out
  /\ resumes' = (resumes + 1) % ResumeWrap
  /\ UNCHANGED <<call, heap>>

Next ==
  \/ CallUnionWithNumbers
  \/ CallUnionWithLists
  \/ CallMaybe
  \/ CallMaybeGet
  \/ CallSafeShuffle
  \/ CallSafeReverse
  \/ CallZipWith
  \/ CallRepeat
  \/ RepeatNext
  \/ CallReplicate
  \/ CallAllSame
  \/ CallTranspose
  \/ CallAllNones
  \/ CallUpdateList
  \/ CallConcat
  \/ Reset

Spec == Init /\ [][Next]_vars

\* The consumer of a generator keeps asking for the next item.
FairSpec == Spec /\ WF_vars(RepeatNext)

(***************************************************************************)
(* The claims.                                                             *)
(***************************************************************************)

\* C1: union_with(mempty, mappend, d1, d2) has exactly the keys of d1 and of
\* d2, and at each key k the value mappend(v1, v2), v1 being d1[k] or mempty
\* and v2 being d2[k] or mempty, d1's value first.
C1_UnionWith ==
  call.op = "union_with" =>
    /\ out.kind = "return"
    /\ out.val[1] = "dict"
    /\ DOMAIN out.val[2] = (DOMAIN call.d1) \cup (DOMAIN call.d2)
    /\ \A k \in DOMAIN out.val[2] :
         LET v1 == IF k \in DOMAIN call.d1 THEN call.d1[k] ELSE call.mempty
             v2 == IF k \in DOMAIN call.d2 THEN call.d2[k] ELSE call.mempty
         IN out.val[2][k] = Apply(call.mappend, v1, v2)

C1_Witness ==
  /\ call.op = "union_with"
  /\ call.mappend = "sub"
  /\ \E k \in (DOMAIN call.d1) \cap (DOMAIN call.d2) : call.d1[k] # call.d2[k]
  /\ \E k \in (DOMAIN call.d2) \ (DOMAIN call.d1) : call.d2[k] # call.mempty
  /\ out.kind = "return"

C3_SystemExit ==
  (call.op = "maybe" /\ call.f = Raise("SystemExit")) => out = Raise("SystemExit")

C3_Witness ==
  /\ call.op = "maybe"
  /\ call.f = Raise("SystemExit")
  /\ "SystemExit" \in call.exceptions
  /\ out = Raise("SystemExit")

\* C4: maybe_get(f, d) returns f's result when f returns, d when f raises a
\* LookupError, KeyError or IndexError, and lets every other error through:
\* the outcome of maybe(f, d, {LookupError}).
C4_MaybeGet ==
  call.op = "maybe_get" =>
    /\ out = IF call.f.kind = "return" THEN call.f
             ELSE IF call.f.exn \in {"LookupError", "KeyError", "IndexError"}
               THEN Return(call.default)
             ELSE call.f
    /\ out = maybe(call.f, call.default, {"LookupError"})

C4_Witness ==
  /\ call.op = "maybe_get"
  /\ call.f = Raise("IndexError")
  /\ call.default = PyInt(0)
  /\ out = Return(PyInt(0))

\* C5: update_list(xs, i, v) with 0 <= i < len(xs) or -len(xs) <= i < 0
\* returns a new list of the same length, equal to xs but for v at the
\* resolved index; with any other i it raises IndexError; xs is unchanged
\* in both cases.
C5_UpdateList ==
  call.op = "update_list" =>
    LET xs == call.xs
        n == Len(xs)
        i == call.index
        valid == (0 <= i /\ i < n) \/ (0 - n <= i /\ i < 0)
        at == IF i < 0 THEN i + n ELSE i
    IN /\ heap[call.ref] = xs
       /\ valid =>
            /\ out.kind = "return"
            /\ out.val[1] = "ref"
            /\ out.val[2] # call.ref
            /\ Len(heap[out.val[2]]) = n
            /\ \A k \in 1..n :
                 heap[out.val[2]][k] = IF k = at + 1 THEN call.new_x ELSE xs[k]
       /\ ~valid => out = Raise("IndexError")

C5_Witness ==
  /\ call.op = "update_list"
  /\ Len(call.xs) >= 2
  /\ call.index = 0 - Len(call.xs)
  /\ call.xs[1] # call.new_x
  /\ out.kind = "return"
  /\ heap[out.val[2]][1] = call.new_x

\* C6: all_same(items) is True for an empty list and for a list of one item,
\* and otherwise True exactly when every item equals the first; it raises
\* nothing.
C6_AllSame ==
  call.op = "all_same" =>
    LET items == call.items
    IN out = Return(PyBool(\/ Len(items) <= 1
                           \/ \A k \in 1..Len(items) : PyEq(items[k], items[1])))

C6_Witness ==
  /\ call.op = "all_same"
  /\ Len(call.items) >= 2
  /\ call.items[1] = None
  /\ call.items[2] # None
  /\ out = Return(PyFalse)

\* C7: replicate(n, x) is a list of max(n, 0) items, each of them x.
C7_Replicate ==
  call.op = "replicate" =>
    /\ out.kind = "return"
    /\ out.val[1] = "list"
    /\ Len(out.val[2]) = (IF call.n[2] > 0 THEN call.n[2] ELSE 0)
    /\ \A k \in 1..Len(out.val[2]) : out.val[2][k] = call.x

C7_Witness ==
  /\ call.op = "replicate"
  /\ call.n[2] < 0
  /\ out.kind = "return"
  /\ Len(out.val[2]) = 0

\* C8: transpose(m) has as many columns as the shortest row has items (none
\* for an empty m), each column has len(m) items, and column j holds at i
\* the item j of row i; what longer rows hold beyond that is dropped.
MinRowLen(m) ==
  IF Len(m) = 0 THEN 0
  ELSE CHOOSE n \in {Len(m[i]) : i \in 1..Len(m)} :
         \A i \in 1..Len(m) : n <= Len(m[i])

C8_Transpose ==
  call.op = "transpose" =>
    LET m == call.m
    IN /\ out.kind = "return"
       /\ out.val[1] = "list"
       /\ Len(out.val[2]) = MinRowLen(m)
       /\ \A j \in 1..MinRowLen(m) :
            /\ Len(out.val[2][j][2]) = Len(m)
            /\ \A i \in 1..Len(m) : out.val[2][j][2][i] = m[i][j]

C8_Witness ==
  /\ call.op = "transpose"
  /\ Len(call.m) = 2
  /\ Len(call.m[1]) > Len(call.m[2])
  /\ Len(call.m[2]) >= 1
  /\ out.kind = "return"
  /\ Len(out.val[2]) = Len(call.m[2])

\* C9: whatever the random source gives, safe_shuffle(xs) returns a new list
\* with the length and the items of xs, each as many times as in xs, and xs
\* is as it was.
Count(l, v) == Cardinality({k \in 1..Len(l) : l[k] = v})

C9_SafeShuffle ==
  call.op = "safe_shuffle" =>
    /\ out.kind = "return"
    /\ out.val[1] = "ref"
    /\ out.val[2] # call.ref
    /\ Len(heap[out.val[2]]) = Len(call.xs)
    /\ \A v \in Values : Count(heap[out.val[2]], v) = Count(call.xs, v)
    /\ heap[call.ref] = call.xs

C9_Witness ==
  /\ call.op = "safe_shuffle"
  /\ Len(call.xs) >= 3
  /\ out.kind = "return"
  /\ \A k \in 1..Len(call.xs) : heap[out.val[2]][k] # call.xs[k]

\* C10, as claimed: no function loops without bound, repeat included, so a
\* consumer that drains repeat(n) comes to the end of the generator.
C10_Original == (gen.pc = "start") ~> (gen.pc = "end")

\* C10, amended: the body of repeat is an unbounded loop: every resumption
\* of the generator ends by yielding n, and the generator never comes to an
\* end.
C10_Repeat ==
  call.op = "repeat" =>
    /\ gen.pc \in {"start", "suspended"}
    /\ gen.n = call.n
    /\ gen.pc = "start" => out = Return(Generator)
    /\ gen.pc = "suspended" => out = Return(call.n)

C10_Witness ==
  /\ call.op = "repeat"
  /\ gen.pc = "suspended"
  /\ resumes = 0
  /\ out = Return(call.n)

====
